---------------------------- MODULE Spec2Model ----------------------------
(***************************************************************************)
(* A model of rlutils' replay storage (PyDictStorage and                   *)
(* MemoryEfficientPyDictStorage), the TD3 agent's train_on_batch control   *)
(* flow and the off-policy updater.                                        *)
(*                                                                         *)
(* Four specifications share the variables:                                *)
(*   Spec         the storage under reset / add (any batch, matching or    *)
(*                mismatching field sizes, any relation of b to C)         *)
(*   SpecSample   the storage under reset / add / sample, both layouts     *)
(*   SpecTD3      the TD3 agent under train_on_batch / reset               *)
(*   SpecUpdater  OffPolicyUpdater.update driving the TD3 agent            *)
(* A specification leaves the objects it does not use in a fixed state.    *)
(***************************************************************************)
EXTENDS Integers, Sequences, FiniteSets, TLC

\* ------------------------------------------------------------------ bounds
MaxCap == 4
MaxBatch == 4
MaxItems == 7
MaxSample == 2
MaxSampleCap == 3
MaxFreq == 3
MaxTau == 3
MaxCalls == 10
MaxEvery == 3
MaxPerStep == 2
MaxStep == 6
MaxOverride == 3
MaxEpochs == 2
MaxStepsPerEpoch == 3
MaxStart == 2
MaxNum == 2
MaxAfter == 3
MaxOnCalls == 2
MaxOnCap == 2
MaxParam == 2
MaxSync == 3
MaxTargetTrain == 2
MaxNoiseClip == 5
MaxTargetNoise == 2
MaxActLim == 10
MaxAct == 10
MaxDraw == 4
TauDen == 2
MaxNSteps == 3
MaxRew == 1
MaxRewardScale == 2
MaxValueTrain == 2
MaxBracpRuns == 2

\* ------------------------------------------------------------- storage
\* The value of an attribute that was never assigned (reading it raises
\* AttributeError): __init__ assigns data_spec, max_size and storage only.
Unset == -1

\* The fields of the data spec.
Fields == {"obs", "rew"}

\* MemoryEfficientPyDictStorage._create_storage: the keys whose spec is a
\* gym space (np_key) and the others (obj_key), for a data spec whose "obs"
\* is not a gym space.
NpKey(layout) == IF layout = "object" THEN <<"rew">> ELSE <<"obs", "rew">>

ObjKey(layout) == IF layout = "object" THEN <<"obs">> ELSE << >>

\* np.arange(lo, hi)
Arange(lo, hi) == IF hi > lo THEN [i \in 1..(hi - lo) |-> lo + i - 1] ELSE << >>

GetAvailableIndexesFromZero(ptr, cap, b) == Arange(0, b)

GetAvailableIndexesNoWrap(ptr, cap, b) == Arange(ptr, ptr + b)

GetAvailableIndexes(ptr, cap, b) ==
    IF ptr + b > cap
    THEN Arange(ptr, cap) \o Arange(0, b - (cap - ptr))
    ELSE Arange(ptr, ptr + b)

\* numpy checks every index of a fancy index before it writes anything.
IndexInBounds(index, cap) == \A i \in DOMAIN index : index[i] >= 0 /\ index[i] < cap

\* column[index] = item, with len(index) = len(item) and the indices in
\* bounds.  numpy gives no order for an index that occurs twice: any of the
\* values written to that slot may stay.
AssignIndexed(col, index, item) ==
    LET written == {index[i] : i \in DOMAIN index}
        writers(j) == {i \in DOMAIN index : index[i] = j}
        winners == {f \in [written -> DOMAIN index] : \A j \in written : f[j] \in writers(j)}
    IN  {[j \in DOMAIN col |-> IF j \in written THEN item[f[j]] ELSE col[j]] : f \in winners}

\* The field loop of PyDictStorage.add: the outcomes of writing the
\* remaining fields `data` (a sequence of <<key, item, kind>>) into `cols`.
RECURSIVE WriteFields(_, _, _, _, _)
WriteFields(cols, data, b, index, cap) ==
    IF data = << >> THEN {[cols |-> cols, err |-> "none"]}
    ELSE LET key == data[1][1]
             item == data[1][2]
         IN  IF b # Len(item) THEN {[cols |-> cols, err |-> "AssertionError"]}
             ELSE IF ~IndexInBounds(index, cap) THEN {[cols |-> cols, err |-> "IndexError"]}
             ELSE UNION {WriteFields([cols EXCEPT ![key] = c], Tail(data), b, index, cap) :
                             c \in AssignIndexed(cols[key], index, item)}

NewPtrNoMod(ptr, b, cap) == ptr + b

NewPtr(ptr, b, cap) == (ptr + b) % cap

NewSizeNoMin(size, b, cap) == size + b

NewSize(size, b, cap) == IF size + b < cap THEN size + b ELSE cap

\* PyDictStorage.add: the set of outcomes [st, err, index].  `data` is the
\* dict passed in, as the sequence of its items.
PyAdd(s, data) ==
    LET b == Len(data[1][2]) IN
    IF s.ptr = Unset THEN {[st |-> s, err |-> "AttributeError", index |-> << >>]}
    ELSE LET index == GetAvailableIndexes(s.ptr, s.capacity, b) IN
         {IF o.err = "none"
          THEN [st |-> [s EXCEPT !.cols = o.cols,
                                 !.ptr = NewPtr(s.ptr, b, s.capacity),
                                 !.size = NewSize(s.size, b, s.capacity)],
                err |-> "none", index |-> index]
          ELSE [st |-> [s EXCEPT !.cols = o.cols], err |-> o.err, index |-> << >>]
             : o \in WriteFields(s.cols, data, b, index, s.capacity)}

\* The list branch of MemoryEfficientPyDictStorage.add: item[i] goes to slot
\* (ptr + i) % max_size for i = 0 .. n - 1, in that order.
RECURSIVE AssignListShifted(_, _, _, _, _)
AssignListShifted(col, item, ptr, cap, n) ==
    IF n = 0 THEN col
    ELSE [AssignListShifted(col, item, ptr, cap, n - 1) EXCEPT ![(ptr + n) % cap] = item[n]]

RECURSIVE AssignList(_, _, _, _, _)
AssignList(col, item, ptr, cap, n) ==
    IF n = 0 THEN col
    ELSE [AssignList(col, item, ptr, cap, n - 1) EXCEPT ![(ptr + n - 1) % cap] = item[n]]

\* The field loop of MemoryEfficientPyDictStorage.add.
RECURSIVE MEWriteFields(_, _, _, _, _, _)
MEWriteFields(cols, data, b, index, ptr, cap) ==
    IF data = << >> THEN {[cols |-> cols, err |-> "none"]}
    ELSE LET key == data[1][1]
             item == data[1][2]
             kind == data[1][3]
         IN  IF kind = "ndarray"
             THEN IF ~IndexInBounds(index, cap) THEN {[cols |-> cols, err |-> "IndexError"]}
                  ELSE IF Len(item) # b /\ Len(item) # 1
                       THEN {[cols |-> cols, err |-> "ValueError"]}
                  ELSE LET full == IF Len(item) = b THEN item ELSE [i \in 1..b |-> item[1]] IN
                       UNION {MEWriteFields([cols EXCEPT ![key] = c], Tail(data), b, index, ptr, cap) :
                                  c \in AssignIndexed(cols[key], index, full)}
             ELSE IF kind = "list"
             THEN IF Len(item) < b
                  THEN {[cols |-> [cols EXCEPT ![key] = AssignList(cols[key], item, ptr, cap, Len(item))],
                         err |-> "IndexError"]}
                  ELSE MEWriteFields([cols EXCEPT ![key] = AssignList(cols[key], item, ptr, cap, b)],
                                     Tail(data), b, index, ptr, cap)
             ELSE {[cols |-> cols, err |-> "ValueError"]}

\* MemoryEfficientPyDictStorage.add
MEAdd(s, data) ==
    LET first == CHOOSE i \in DOMAIN data : data[i][1] = NpKey(s.layout)[1]
        b == Len(data[first][2])
    IN
    IF s.ptr = Unset THEN {[st |-> s, err |-> "AttributeError", index |-> << >>]}
    ELSE LET index == GetAvailableIndexes(s.ptr, s.capacity, b) IN
         {IF o.err = "none"
          THEN [st |-> [s EXCEPT !.cols = o.cols,
                                 !.ptr = NewPtr(s.ptr, b, s.capacity),
                                 !.size = NewSize(s.size, b, s.capacity)],
                err |-> "none", index |-> index]
          ELSE [st |-> [s EXCEPT !.cols = o.cols], err |-> o.err, index |-> << >>]
             : o \in MEWriteFields(s.cols, data, b, index, s.ptr, s.capacity)}

\* storage.add, by the class of the storage.
Add(s, data) == IF s.layout = "object" THEN MEAdd(s, data) ELSE PyAdd(s, data)

\* PyDictStorage.reset
PyReset(s) == [s EXCEPT !.ptr = 0, !.size = 0]

\* PyDictStorage.__len__ (Unset: reading self.size raises AttributeError).
PyLen(s) == s.size

\* PyDictStorage.__getitem__ with an index array `item`.
PyGetItem(s, item) == [k \in Fields |-> [i \in DOMAIN item |-> s.cols[k][item[i]]]]

\* MemoryEfficientPyDictStorage.__getitem__: the np keys by fancy indexing,
\* the object keys one element at a time.
RECURSIVE CollectObjects(_, _)
CollectObjects(col, item) ==
    IF item = << >> THEN << >> ELSE <<col[item[1]]>> \o CollectObjects(col, Tail(item))

MEGetItem(s, item) ==
    LET np == {NpKey(s.layout)[i] : i \in DOMAIN NpKey(s.layout)}
        obj == {ObjKey(s.layout)[i] : i \in DOMAIN ObjKey(s.layout)}
    IN  [k \in np \cup obj |->
            IF k \in np THEN [i \in DOMAIN item |-> s.cols[k][item[i]]]
            ELSE CollectObjects(s.cols[k], item)]

GetItem(s, item) == IF s.layout = "object" THEN MEGetItem(s, item) ELSE PyGetItem(s, item)

\* The replay buffer's sample(): batch_size indices drawn uniformly with
\* replacement from [0, len(storage)), then storage[idx].  The result is the
\* set of possible [idx, batch].
BufferSample(s, b) ==
    {[idx |-> idx, batch |-> GetItem(s, idx)] : idx \in [1..b -> 0..(PyLen(s) - 1)]}

\* PyDictStorage.get: the stored mapping itself.
PyGet(s) == s.cols

\* PyDictStorage.__init__ and _create_storage: zeros, ptr and size unassigned.
NewStorage(layout, cap) ==
    [layout |-> layout, capacity |-> cap, ptr |-> Unset, size |-> Unset,
     cols |-> [k \in Fields |-> [j \in 0..(cap - 1) |-> 0]]]

\* ------------------------------------------------------------ TD3 agent
\* TD3Agent.__init__ with policy_update_freq = k and tau: a float tau
\* ("soft", the coefficient tau / TauDen) or an int tau ("hard", tau the
\* period).  OffPolicyAgent.__init__ calls reset().  gamma and reward_scale
\* keep their defaults: gamma = 0.99 ** 1 as the fraction 99 / 100, and
\* reward_scale = 1.0.
NewAgent(k, method, tau) ==
    [policy_updates |-> 0, policy_update_freq |-> k,
     target_update_method |-> method, tau |-> tau,
     gamma |-> <<99, 100>>, reward_scale |-> 1]

\* OffPolicyAgent.reset
\* The name `agent` before a constructor has returned.
NoAgent ==
    [policy_updates |-> Unset, policy_update_freq |-> Unset,
     target_update_method |-> "unset", tau |-> Unset,
     gamma |-> <<0, 1>>, reward_scale |-> Unset]

\* isinstance(tau, float) and isinstance(tau, int) on the type of tau: bool is
\* a subclass of int.
IsInstanceFloat(ty) == ty = "float"

IsInstanceInt(ty) == ty \in {"int", "bool"}

TauModeSoftDefault(ty) ==
    IF IsInstanceFloat(ty) THEN "soft"
    ELSE IF IsInstanceInt(ty) THEN "hard"
    ELSE "soft"

\* The type test of TD3Agent.__init__ on tau.
TauMode(ty) ==
    IF IsInstanceFloat(ty) THEN "soft"
    ELSE IF IsInstanceInt(ty) THEN "hard"
    ELSE "ValueError"

\* TD3Agent(env, policy_update_freq = k, tau = tau), tau = <<type, value>>.
TD3Init(k, tau) ==
    LET mode == TauMode(tau[1]) IN
    IF mode = "ValueError" THEN [agent |-> NoAgent, err |-> "ValueError"]
    ELSE [agent |-> NewAgent(k, mode, tau[2]), err |-> "none"]

AgentReset(a) == [a EXCEPT !.policy_updates = 0]

ActorDueBeforeIncrement(pu, k) == (pu - 1) % k = 0

\* if self.policy_updates % self.policy_update_freq == 0
ActorDue(pu, k) == pu % k = 0

TargetDueByFreq(a, pu) ==
    IF a.target_update_method = "soft"
    THEN (IF pu % a.policy_update_freq = 0 THEN "sync" ELSE "skip")
    ELSE IF a.tau = 0 THEN "ZeroDivisionError"
    ELSE (IF pu % a.tau = 0 THEN "sync" ELSE "skip")

\* update_target_fn: "sync", "skip", or "ZeroDivisionError" (x % 0).
TargetDue(a, pu) ==
    IF a.target_update_method = "soft"
    THEN (IF pu % 2 = 0 THEN "sync" ELSE "skip")
    ELSE IF a.tau = 0 THEN "ZeroDivisionError"
    ELSE (IF pu % a.tau = 0 THEN "sync" ELSE "skip")

TargetDecisionIgnoreArg(a, pu, ut) == TargetDue(a, pu)

\* What the tail of train_on_batch does about the targets, for the keyword
\* argument update_target ("None" when absent, else "True" or "False").
TargetDecision(a, pu, ut) ==
    IF ut = "None" THEN TargetDue(a, pu)
    ELSE IF ut = "True" THEN "sync" ELSE "skip"

TrainEventsTargetFirst(actor, target) ==
    (IF target THEN <<"target">> ELSE << >>) \o <<"critic">>
        \o (IF actor THEN <<"actor">> ELSE << >>)

\* The parameter mutations of one train_on_batch call, in program order:
\* train_q_network_on_batch, then train_actor_on_batch, then update_target.
TrainEvents(actor, target) ==
    <<"critic">> \o (IF actor THEN <<"actor">> ELSE << >>)
        \o (IF target THEN <<"target">> ELSE << >>)

\* TD3Agent.train_on_batch(data, update_target=ut): [agent, events, err].
TrainOnBatchNoCount(a, ut) ==
    LET pu == a.policy_updates + 1
        actor == ActorDue(pu, a.policy_update_freq)
        dec == TargetDecision(a, pu, ut)
    IN  [agent |-> a,
         events |-> TrainEvents(actor, dec = "sync"),
         err |-> IF dec = "ZeroDivisionError" THEN dec ELSE "none"]

TrainOnBatch(a, ut) ==
    LET pu == a.policy_updates + 1
        actor == ActorDue(pu, a.policy_update_freq)
        dec == TargetDecision(a, pu, ut)
    IN  [agent |-> [a EXCEPT !.policy_updates = pu],
         events |-> TrainEvents(actor, dec = "sync"),
         err |-> IF dec = "ZeroDivisionError" THEN dec ELSE "none"]

\* ----------------------------------------------------- TD3 parameters
\* A parameter value is a fraction <<n, d>> in lowest terms, d > 0.
RECURSIVE Gcd(_, _)
Gcd(a, b) == IF b = 0 THEN a ELSE Gcd(b, a % b)

Abs(x) == IF x < 0 THEN 0 - x ELSE x

Frac(n, d) == LET g == Gcd(Abs(n), d) IN <<n \div g, d \div g>>

\* Fractions: difference, sum, product and order.
FracSub(x, y) == Frac(x[1] * y[2] - y[1] * x[2], x[2] * y[2])

FracAdd(x, y) ==
    LET g == Gcd(x[2], y[2]) IN
    Frac(x[1] * (y[2] \div g) + y[1] * (x[2] \div g), (x[2] \div g) * y[2])

FracMul(x, y) == Frac(x[1] * y[1], x[2] * y[2])

FracLess(x, y) ==
    LET g == Gcd(x[2], y[2]) IN x[1] * (y[2] \div g) < y[1] * (x[2] \div g)

\* rlu.functional.soft_update: target = tau * online + (1 - tau) * target,
\* tau = t / TauDen.
SoftUpdate(target, online, t) ==
    Frac(t * online[1] * target[2] + (TauDen - t) * target[1] * online[2],
         TauDen * online[2] * target[2])

\* rlu.functional.hard_update: target = online.
HardUpdate(target, online) == online

UpdateTargetQOnly(a, p) ==
    IF a.target_update_method = "soft"
    THEN [p EXCEPT !.tq = SoftUpdate(p.tq, p.q, a.tau)]
    ELSE [p EXCEPT !.tq = HardUpdate(p.tq, p.q)]

UpdateTargetAlwaysSoft(a, p) ==
    [p EXCEPT !.tq = SoftUpdate(p.tq, p.q, 1), !.tpi = SoftUpdate(p.tpi, p.pi, 1)]

\* TD3Agent.update_target on the parameters p: q and pi the online critic
\* and policy, tq and tpi their targets.
UpdateTarget(a, p) ==
    IF a.target_update_method = "soft"
    THEN [p EXCEPT !.tq = SoftUpdate(p.tq, p.q, a.tau),
                   !.tpi = SoftUpdate(p.tpi, p.pi, a.tau)]
    ELSE [p EXCEPT !.tq = HardUpdate(p.tq, p.q),
                   !.tpi = HardUpdate(p.tpi, p.pi)]

\* torch.clip(x, lo, hi)
Clip(x, lo, hi) == IF x < lo THEN lo ELSE IF x > hi THEN hi ELSE x

ComputeNextActionNoFinalClip(action, z, cfg) ==
    LET epsilon == Clip(z * cfg.target_noise, 0 - cfg.noise_clip, cfg.noise_clip)
    IN  [epsilon |-> epsilon, next_action |-> action + epsilon]

\* The next action of TD3Agent._compute_next_obs_q, in tenths: action is the
\* output of the target policy, z the draw of randn_like.
ComputeNextAction(action, z, cfg) ==
    LET epsilon == Clip(z * cfg.target_noise, 0 - cfg.noise_clip, cfg.noise_clip)
    IN  [epsilon |-> epsilon,
         next_action |-> Clip(action + epsilon, 0 - cfg.act_lim, cfg.act_lim)]

\* The parameter groups: online critic and policy, and their targets.
ParamNames == {"q", "pi", "tq", "tpi"}

\* The targets are frozen (requires_grad False); the online networks are not.
Trainable == {"q", "pi"}

\* reset_optimizer: q_optimizer is built over q_network.parameters().
QOptimizerParams == {"q"}

PolicyOptimizerAllParams == {"pi", "q"}

\* reset_optimizer: policy_optimizer is built over policy_net.parameters().
PolicyOptimizerParams == {"pi"}

\* The parameters that q_values_loss.backward() gives a gradient: the loss
\* reads q_network, and q_target under no_grad.
CriticLossGrads == {"q"} \cap Trainable

\* The parameters that policy_loss.backward() gives a gradient: the loss is
\* q_network applied to the output of policy_net.
ActorLossGrads == {"pi", "q"} \cap Trainable

\* optimizer.step(): the parameters of the optimizer's group that have a
\* gradient move to a new value.
OptimizerStep(p, group, grads) ==
    [k \in DOMAIN p |->
        IF k \in ParamNames /\ k \in group \cap grads
        THEN Frac(p[k][1] + p[k][2], p[k][2]) ELSE p[k]]

\* self.q_optimizer.step(): the critic moves to a new value.
CriticStep(p) ==
    [OptimizerStep(p, QOptimizerParams, CriticLossGrads) EXCEPT !.qopt = @ + 1]

\* self.policy_optimizer.step(): the policy moves to a new value.
ActorStep(p) ==
    [OptimizerStep(p, PolicyOptimizerParams, ActorLossGrads) EXCEPT !.piopt = @ + 1]

\* The parameters after the mutations `events` of one train_on_batch call.
RECURSIVE ApplyEvents(_, _, _)
ApplyEvents(a, p, events) ==
    IF events = << >> THEN p
    ELSE LET e == events[1]
             p1 == IF e = "critic" THEN CriticStep(p)
                   ELSE IF e = "actor" THEN ActorStep(p)
                   ELSE UpdateTarget(a, p)
         IN  ApplyEvents(a, p1, Tail(events))

\* TD3Agent.__init__: the targets are deep copies of the online networks;
\* qopt and piopt are the steps the two optimizers have taken since
\* reset_optimizer built them.
NewParams(q, pi) ==
    [q |-> Frac(q, 1), pi |-> Frac(pi, 1), tq |-> Frac(q, 1), tpi |-> Frac(pi, 1),
     qopt |-> 0, piopt |-> 0]

\* -------------------------------------------------------- target values
\* gamma ** n for a fraction gamma.
RECURSIVE FracPow(_, _)
FracPow(g, n) == IF n = 0 THEN <<1, 1>> ELSE FracMul(g, FracPow(g, n - 1))

FracAbs(x) == <<Abs(x[1]), x[2]>>

EffectiveGammaUnscaled(g, n) == g

\* self.gamma = gamma ** n_steps
EffectiveGamma(g, n) == FracPow(g, n)

\* TD3Agent.__init__ with gamma = g, n_steps = n and reward_scale = scale.
NewAgentGamma(k, method, tau, g, n, scale) ==
    [NewAgent(k, method, tau) EXCEPT !.gamma = EffectiveGamma(g, n),
                                     !.reward_scale = scale]

\* rlu.functional.compute_target_value: rew + gamma * (1 - done) * next_q.
ComputeTargetValue(rew, gamma, done, next_q) ==
    FracAdd(rew, FracMul(gamma, FracMul(Frac(1 - done, 1), next_q)))

\* The networks on one transition: a critic's value is its parameter.
\* self.q_network((obs, act), training=False)
QNetwork(p) == p.q

\* TD3Agent._compute_next_obs_q: the target critic at the smoothed target
\* action.
NextObsQ(p) == p.tq

\* The target of train_q_network_on_batch and compute_priority_torch for
\* the transition d = [rew, done].
QTarget(a, p, d) ==
    ComputeTargetValue(Frac(d.rew, a.reward_scale), a.gamma, d.done, NextObsQ(p))

\* abs_td_error = torch.abs(q_values - q_target)
AbsTdError(a, p, d) == FracAbs(FracSub(QNetwork(p), QTarget(a, p, d)))

ComputePriorityTraining(a, p, d) ==
    [agent |-> a, params |-> CriticStep(p), abs_td_error |-> AbsTdError(a, p, d)]

\* TD3Agent.compute_priority: the agent and the parameters after the call,
\* and the value returned.
ComputePriority(a, p, d) ==
    [agent |-> a, params |-> p, abs_td_error |-> AbsTdError(a, p, d)]

\* TD3Agent.reset_optimizer: two new optimizers over the same parameters.
ResetOptimizer(p) == [p EXCEPT !.qopt = 0, !.piopt = 0]

\* ------------------------------------------------------------- updater
\* OffPolicyUpdater.__init__
NewUpdater(per, every) == [update_per_step |-> per, update_every |-> every]

\* if global_step % self.update_every == 0
UpdateGate(u, g) == g % u.update_every = 0

UpdateCountPerStepOnly(u) == u.update_per_step

\* range(int(self.update_per_step * self.update_every))
UpdateCount(u) == u.update_per_step * u.update_every

\* The first n iterations of the loop of OffPolicyUpdater.update, the buffer
\* having served d0 batches before: each draws batch number d0 + i and
\* trains on it; an exception in train_on_batch ends the loop.
RECURSIVE UpdateLoop(_, _, _)
UpdateLoop(a, n, d0) ==
    IF n = 0 THEN [agent |-> a, events |-> << >>, err |-> "none"]
    ELSE LET prev == UpdateLoop(a, n - 1, d0) IN
         IF prev.err # "none" THEN prev
         ELSE LET t == TrainOnBatch(prev.agent, "None") IN
              [agent |-> t.agent,
               events |-> prev.events \o <<[ev |-> "sample", batch |-> d0 + n],
                                           [ev |-> "train", batch |-> d0 + n]>>,
               err |-> t.err]

\* OffPolicyUpdater.update(global_step)
UpdaterUpdate(u, a, g, d0) ==
    IF UpdateGate(u, g) THEN UpdateLoop(a, UpdateCount(u), d0)
    ELSE [agent |-> a, events |-> << >>, err |-> "none"]

OnPolicyUpdateAndClear(s) ==
    [st |-> PyReset(s), events |-> <<[ev |-> "train", kwargs |-> PyGet(s)]>>]

\* OnPolicyUpdater.update(global_step): data = replay_buffer.get(), then
\* agent.train_on_batch(**data).
OnPolicyUpdate(s) ==
    LET data == PyGet(s) IN
    [st |-> s, events |-> <<[ev |-> "train", kwargs |-> data]>>]

\* -------------------------------------------------------------- runner
\* Python's binding of a call made with keyword arguments only: TypeError
\* for an unexpected keyword and for a missing required parameter.
BindCall(accepted, required, kwargs) ==
    IF kwargs \subseteq accepted /\ required \subseteq kwargs THEN "none" ELSE "TypeError"

\* The parameters of OffPolicyUpdater.__init__, none with a default.
OffPolicyUpdaterParams == {"agent", "replay_buffer", "update_per_step", "update_every"}

\* The parameters of OnPolicyUpdater.__init__ (PolicyUpdater.__init__).
OnPolicyUpdaterParams == {"agent", "replay_buffer"}

\* The parameter of update, without a default.
UpdateParams == {"global_step"}

\* The keywords OffPolicyRunner.setup_updater passes to OffPolicyUpdater.
SetupUpdaterKwargs == {"agent", "replay_buffer", "policy_delay", "update_per_step"}

\* The keywords run_one_step passes to updater.update: none.
StepUpdateKwargs == {}

\* BaseRunner.__init__ and setup_sampler: kind "off" is OffPolicyRunner, "on"
\* OnPolicyRunner, "base" a subclass that keeps BaseRunner's hooks.  t counts
\* the run_one_step calls run() has completed.
NewRunner(kind, epochs, spe, start, num) ==
    [kind |-> kind, pc |-> "idle", global_step |-> 0, epochs |-> epochs,
     steps_per_epoch |-> spe, t |-> 0, updater |-> "unset", update_after |-> Unset,
     start_steps |-> start, num_steps |-> num, total_env_steps |-> 0]

\* setup_updater: OffPolicyRunner stores update_after and then constructs the
\* updater; OnPolicyRunner constructs the updater.
SetupUpdater(r, update_after) ==
    IF r.kind = "off"
    THEN LET r1 == [r EXCEPT !.update_after = update_after]
             err == BindCall(OffPolicyUpdaterParams, OffPolicyUpdaterParams, SetupUpdaterKwargs)
         IN  [runner |-> IF err = "none" THEN [r1 EXCEPT !.updater = "OffPolicyUpdater"] ELSE r1,
              err |-> err]
    ELSE LET err == BindCall(OnPolicyUpdaterParams, OnPolicyUpdaterParams, OnPolicyUpdaterParams)
         IN  [runner |-> IF err = "none" THEN [r EXCEPT !.updater = "OnPolicyUpdater"] ELSE r,
              err |-> err]

\* sampler.sample(num_steps = n, ..., replay_buffer): n environment steps, the
\* transition of each written to the storage before the next step.
RECURSIVE SamplerSample(_, _, _)
SamplerSample(s, n, from) ==
    IF n = 0 THEN {s}
    ELSE UNION {SamplerSample(o.st, n - 1, from + 1) :
                    o \in PyAdd(s, <<(<<"obs", <<from>>, "ndarray">>),
                                     (<<"rew", <<from>>, "ndarray">>)>>)}

\* self.updater.update() as run_one_step calls it.
StepUpdate(r) ==
    IF r.updater = "unset" THEN "AttributeError"
    ELSE BindCall(UpdateParams, UpdateParams, StepUpdateKwargs)

\* The calls of one step, in their order.
StepEvents(sampled, updated) == sampled \o updated

\* The parameters of act_batch_explore (TD3Agent and OffPolicyAgent), none
\* with a default.
ActBatchExploreParams == {"obs", "global_steps"}

\* The arguments of the agent branch's collect_fn:
\* lambda obs: self.agent.act_batch_explore(obs)
CollectExploreArgs == {"obs"}

\* The collect_fn run_one_step hands to the sampler, and what calling it
\* for an action raises: env.action_space.sample() below start_steps, the
\* agent's act_batch_explore from then on.
CollectFn(r) ==
    IF r.total_env_steps < r.start_steps
    THEN [source |-> "random", err |-> "none"]
    ELSE [source |-> "explore",
          err |-> BindCall(ActBatchExploreParams, ActBatchExploreParams,
                           CollectExploreArgs)]

\* OffPolicyRunner.run_one_step: the outcomes
\* [runner, st, n, events, err, trains, source].
RunOneStepOff(r, s, from) ==
    LET c == CollectFn(r)
        n == IF r.total_env_steps < r.start_steps THEN 1 ELSE r.num_steps
        r1 == [r EXCEPT !.total_env_steps = r.total_env_steps + n]
    IN  IF c.err # "none"
        THEN {[runner |-> r, st |-> s, n |-> 0, events |-> StepEvents(<<"sample">>, << >>),
               err |-> c.err, trains |-> 0, source |-> c.source]}
        ELSE
        {IF r.update_after = Unset
         THEN [runner |-> r1, st |-> s1, n |-> n, events |-> StepEvents(<<"sample">>, << >>),
               err |-> "AttributeError", trains |-> 0, source |-> c.source]
         ELSE IF r1.total_env_steps >= r.update_after
         THEN [runner |-> r1, st |-> s1, n |-> n,
               events |-> StepEvents(<<"sample">>, <<"update">>),
               err |-> StepUpdate(r), trains |-> 0, source |-> c.source]
         ELSE [runner |-> r1, st |-> s1, n |-> n, events |-> StepEvents(<<"sample">>, << >>),
               err |-> "none", trains |-> 0, source |-> c.source]
            : s1 \in SamplerSample(s, n, from)}

\* OnPolicyRunner.run_one_step.
RunOneStepOn(r, s, from) ==
    LET n == r.num_steps
        r1 == [r EXCEPT !.total_env_steps = r.total_env_steps + n]
    IN  {[runner |-> r1, st |-> s1, n |-> n,
          events |-> StepEvents(<<"sample">>, <<"update">>),
          err |-> StepUpdate(r), trains |-> 0, source |-> "act_batch"]
            : s1 \in SamplerSample(s, n, from)}

\* BaseRunner.run_one_step is abstract: the subclass's step makes `trains`
\* train_on_batch calls and returns, or raises.
RunOneStepBase(r, s) ==
    {[runner |-> r, st |-> s, n |-> 0, events |-> << >>, err |-> "none", trains |-> k,
      source |-> "none"]
        : k \in 0..1}
    \cup {[runner |-> r, st |-> s, n |-> 0, events |-> << >>, err |-> "NotImplementedError",
           trains |-> 0, source |-> "none"]}

RunOneStep(r, s, from) ==
    IF r.kind = "off" THEN RunOneStepOff(r, s, from)
    ELSE IF r.kind = "on" THEN RunOneStepOn(r, s, from)
    ELSE RunOneStepBase(r, s)

\* on_train_begin: BaseRunner's does nothing; OnPolicyRunner's and
\* OffPolicyRunner's call sampler.reset() and then updater.reset().
OnTrainBegin(r) ==
    IF r.kind = "base" THEN "none" ELSE "AttributeError"

GlobalStepStuck(g) == g

\* self.global_step += 1
NextGlobalStep(g) == g + 1

\* ------------------------------------------------------- BRAC+ runner
\* The checkpoint files of a BRACPRunner: behavior_filepath,
\* policy_behavior_filepath and log_beta_behavior_filepath.
Checkpoints == {"behavior", "policy", "log_beta"}

\* BRACPRunner.setup_extra: the two force flags; files are the checkpoints
\* that load_weights(...).assert_consumed() accepts.
NewBracp(fb, fc, files) ==
    [force_pretrain_behavior |-> fb, force_pretrain_cloning |-> fc,
     files |-> files, op |-> "none", files0 |-> files, events |-> << >>,
     err |-> "none", runs |-> 0]

BehaviorStageFlagOnly(b) ==
    IF b.force_pretrain_behavior
    THEN [b EXCEPT !.events = @ \o <<"pretrain_behavior", "save_behavior">>,
                   !.files = @ \cup {"behavior"}]
    ELSE [b EXCEPT !.events = @ \o <<"load_behavior">>]

\* on_train_begin, the first try / except: the flag raises ValueError before
\* the load, a failed load raises too, and the bare except pretrains the
\* behavior policy and saves its checkpoint.
BehaviorStage(b) ==
    IF b.force_pretrain_behavior
    THEN [b EXCEPT !.events = @ \o <<"pretrain_behavior", "save_behavior">>,
                   !.files = @ \cup {"behavior"}]
    ELSE IF "behavior" \in b.files
    THEN [b EXCEPT !.events = @ \o <<"load_behavior">>]
    ELSE [b EXCEPT !.events = @ \o <<"load_behavior_failed", "pretrain_behavior",
                                     "save_behavior">>,
                   !.files = @ \cup {"behavior"}]

\* on_train_begin, the second try / except: policy_net is loaded first, then
\* log_beta; either failure, or the flag, leads to pretrain_cloning and to
\* the two saves.
CloningStage(b) ==
    LET redo(ev) == [b EXCEPT !.events = @ \o ev \o <<"pretrain_cloning", "save_policy",
                                                      "save_log_beta">>,
                              !.files = @ \cup {"policy", "log_beta"}]
    IN  IF b.force_pretrain_cloning THEN redo(<< >>)
        ELSE IF "policy" \notin b.files THEN redo(<<"load_policy_failed">>)
        ELSE IF "log_beta" \notin b.files
        THEN redo(<<"load_policy", "load_log_beta_failed">>)
        ELSE [b EXCEPT !.events = @ \o <<"load_policy", "load_log_beta">>]

\* BRACPRunner.on_train_begin
BracpOnTrainBegin(b) ==
    LET b0 == [b EXCEPT !.op = "on_train_begin", !.files0 = b.files,
                        !.events = << >>, !.err = "none", !.runs = @ + 1]
        b1 == BehaviorStage(b0)
        b2 == CloningStage(b1)
    IN  [b2 EXCEPT !.events = @ \o <<"hard_update">>]

\* BRACPRunner.setup_extra
BracpSetupExtra(b, fb, fc) ==
    [b EXCEPT !.force_pretrain_behavior = fb, !.force_pretrain_cloning = fc,
              !.op = "setup_extra"]

\* ------------------------------------------------------------ variables
VARIABLES
    st,         \* the storage object
    lastAdd,    \* the last storage call: op, err, index returned, ptr before
    log,        \* the add calls since reset: <<len of 1st field, of 2nd, err>>
    serial,     \* the next fresh item value
    base,       \* the value of serial at the last reset (or construction)
    lastSample, \* the last sample call: op, b, idx, batch
    agent,      \* the TD3 agent
    call,       \* the last agent call: op, ut, err, events
    since,      \* since construction or reset: calls, critic, actor and
                \* target updates, and the calls that updated the actor
    params,     \* the agent's online and target parameters
    upd,        \* the off-policy updater
    draws,      \* the batches the replay buffer has served
    lastUpd,    \* the last updater call: op, g, pu0, err, events
    runner,     \* the runner object
    rcall,      \* the last runner call: op, err, events
    lastOn,     \* the last on-policy updater call: op, events, and the
                \* number n of such calls
    ctor,       \* the last TD3Agent construction: op, tau, err
    smooth,     \* noise_clip, target_noise and act_lim of the agent (in
                \* tenths) and its last target-action computation
    td,         \* the gamma and n_steps the agent was constructed with and
                \* its last target-value computation
    bracp       \* the BRAC+ runner: force flags, loadable checkpoints and
                \* its last call

storageVars == <<st, lastAdd, log, serial, base, lastSample>>

agentVars == <<agent, call, since, params>>

updVars == <<upd, draws, lastUpd>>

runVars == <<runner, rcall, lastOn, ctor, smooth, td, bracp>>

vars == <<storageVars, agentVars, updVars, runVars>>

NoAgentCall == [op |-> "none", ut |-> "None", err |-> "none", events |-> << >>]

NoSince == [calls |-> 0, critic |-> 0, actor |-> 0, target |-> 0, actorCalls |-> {}]

NoUpd == [op |-> "none", g |-> 0, pu0 |-> 0, err |-> "none", events |-> << >>]

\* The parts of the state a specification does not use.
IdleStorage ==
    /\ st = NewStorage("dense", 1)
    /\ lastAdd = [op |-> "none", err |-> "none", index |-> << >>, ptr0 |-> 0]
    /\ log = << >> /\ serial = 0 /\ base = 0
    /\ lastSample = [op |-> "none", err |-> "none", b |-> 0, idx |-> << >>, batch |-> << >>]

IdleAgent ==
    /\ agent = NewAgent(1, "soft", 0) /\ call = NoAgentCall /\ since = NoSince
    /\ params = NewParams(0, 0)

IdleUpdater == upd = NewUpdater(1, 1) /\ draws = 0 /\ lastUpd = NoUpd

NoRunner ==
    [kind |-> "none", pc |-> "idle", global_step |-> 0, epochs |-> 0,
     steps_per_epoch |-> 0, t |-> 0, updater |-> "unset", update_after |-> Unset,
     start_steps |-> 0, num_steps |-> 0, total_env_steps |-> 0]

NoRunnerCall ==
    [op |-> "none", err |-> "none", events |-> << >>, g |-> 0, source |-> "none",
     total0 |-> 0, n |-> 0]

NoOn == [op |-> "none", n |-> 0, events |-> << >>]

NoCtor == [op |-> "none", tau |-> <<"float", 0>>, err |-> "none"]

NoSmooth ==
    [op |-> "none", noise_clip |-> 5, target_noise |-> 2, act_lim |-> 10,
     action |-> 0, noise |-> 0, epsilon |-> 0, next_action |-> 0]

IdleRunner == runner = NoRunner /\ rcall = NoRunnerCall

IdleOn == lastOn = NoOn

IdleCtor == ctor = NoCtor

IdleSmooth == smooth = NoSmooth

NoTd ==
    [op |-> "none", gamma |-> <<99, 100>>, n_steps |-> 1, rew |-> 0, done |-> 0,
     next_q |-> <<0, 1>>, q_value |-> <<0, 1>>, q_target |-> <<0, 1>>,
     abs_td_error |-> <<0, 1>>]

IdleTd == td = NoTd /\ bracp = NewBracp(FALSE, FALSE, {})

IdleRun == IdleRunner /\ IdleOn /\ IdleCtor /\ IdleSmooth /\ IdleTd

\* The items from, from + 1, ..., n of them.
Items(from, n) == [i \in 1..n |-> from + i - 1]

NoCall == [op |-> "none", err |-> "none", index |-> << >>, ptr0 |-> 0]

NoSample == [op |-> "none", err |-> "none", b |-> 0, idx |-> << >>, batch |-> << >>]

\* The sum of the batch sizes of the successful adds since reset.
RECURSIVE Total(_)
Total(l) == IF l = << >> THEN 0
            ELSE (IF l[1][3] = "none" THEN l[1][1] ELSE 0) + Total(Tail(l))

\* No add since reset has failed.
Clean(l) == \A i \in DOMAIN l : l[i][3] = "none"

InitStorage ==
    /\ \E cap \in 1..MaxCap : st = NewStorage("dense", cap)
    /\ lastAdd = NoCall
    /\ log = << >>
    /\ serial = 0
    /\ base = 0
    /\ lastSample = NoSample
    /\ IdleAgent /\ IdleUpdater /\ IdleRun

\* storage.reset()
StorageReset ==
    /\ st' = PyReset(st)
    /\ lastAdd' = [NoCall EXCEPT !.op = "reset"]
    /\ log' = << >>
    /\ base' = serial
    /\ lastSample' = NoSample
    /\ UNCHANGED <<serial, agentVars, updVars, runVars>>

\* storage.add(data) for the dict `data` whose fields have b1 and b2 fresh
\* items (m the larger of the two).
AddData(data, b1, b2, m) ==
    /\ serial + m <= MaxItems
    /\ \E o \in Add(st, data) :
         /\ st' = o.st
         /\ lastAdd' = [op |-> "add", err |-> o.err, index |-> o.index,
                        ptr0 |-> st.ptr]
         /\ log' = Append(log, <<b1, b2, o.err>>)
    /\ serial' = serial + m
    /\ lastSample' = NoSample
    /\ UNCHANGED <<base, agentVars, updVars, runVars>>

\* storage.add(data), data = {k1: b1 items, k2: b2 items}: either key order,
\* equal or unequal batch sizes, any relation of b1 to the capacity.
StorageAdd ==
    \E k1 \in Fields, b1 \in 1..MaxBatch, b2 \in 1..MaxBatch :
        LET k2 == CHOOSE k \in Fields : k # k1 IN
        AddData(<<(<<k1, Items(serial, b1), "ndarray">>),
                  (<<k2, Items(serial, b2), "ndarray">>)>>,
                b1, b2, IF b1 > b2 THEN b1 ELSE b2)

Next == StorageReset \/ StorageAdd

Spec == InitStorage /\ [][Next]_vars

\* ------------------------------------------------- storage with sampling
InitSample ==
    /\ \E layout \in {"dense", "object"}, cap \in 1..MaxSampleCap :
           st = NewStorage(layout, cap)
    /\ lastAdd = NoCall
    /\ log = << >>
    /\ serial = 1
    /\ base = 1
    /\ lastSample = NoSample
    /\ IdleAgent /\ IdleUpdater /\ IdleRun

\* storage.add(data) with b fresh items in every field, the np keys as
\* arrays and the object keys as lists.
SampleAdd ==
    \E b \in 1..MaxBatch :
        LET kindOf(k) == IF \E i \in DOMAIN ObjKey(st.layout) : ObjKey(st.layout)[i] = k
                         THEN "list" ELSE "ndarray"
        IN  AddData(<<(<<"obs", Items(serial, b), kindOf("obs")>>),
                      (<<"rew", Items(serial, b), kindOf("rew")>>)>>, b, b, b)

\* replay_buffer.sample() with batch size b.
StorageSample ==
    \E b \in 1..MaxSample :
        /\ IF st.size = Unset
           THEN lastSample' = [NoSample EXCEPT !.op = "sample", !.err = "AttributeError", !.b = b]
           ELSE IF PyLen(st) < 1
           THEN lastSample' = [NoSample EXCEPT !.op = "sample", !.err = "ValueError", !.b = b]
           ELSE \E r \in BufferSample(st, b) :
                    lastSample' = [op |-> "sample", err |-> "none", b |-> b,
                                   idx |-> r.idx, batch |-> r.batch]
        /\ UNCHANGED <<st, lastAdd, log, serial, base, agentVars, updVars, runVars>>

NextSample == StorageReset \/ SampleAdd \/ StorageSample

SpecSample == InitSample /\ [][NextSample]_vars

\* --------------------------------------- storage with an object field
\* A reset MemoryEfficientPyDictStorage whose "obs" is stored as objects.
InitObject ==
    /\ \E cap \in 1..MaxSampleCap : st = PyReset(NewStorage("object", cap))
    /\ lastAdd = NoCall
    /\ log = << >>
    /\ serial = 1
    /\ base = 1
    /\ lastSample = NoSample
    /\ IdleAgent /\ IdleUpdater /\ IdleRun

\* storage.add(data) with b fresh items in every field: "rew" an array,
\* "obs" a list or a tuple, in either key order.
ObjectAdd ==
    \E b \in 1..MaxBatch, kind \in {"list", "tuple"}, objFirst \in BOOLEAN :
        LET obs == <<"obs", Items(serial, b), kind>>
            rew == <<"rew", Items(serial, b), "ndarray">>
        IN  AddData(IF objFirst THEN <<obs, rew>> ELSE <<rew, obs>>, b, b, b)

NextObject == StorageReset \/ ObjectAdd

SpecObject == InitObject /\ [][NextObject]_vars

\* ------------------------------------------------------------ TD3 agent
\* The agents the constructor builds: policy_update_freq k >= 1; a float tau
\* in (0, 1) (soft) or an int tau >= 0 (hard).
AgentConfigs ==
    {NewAgent(k, "soft", t) : k \in 1..MaxFreq, t \in 1..(TauDen - 1)}
        \cup {NewAgent(k, "hard", p) : k \in 1..MaxFreq, p \in 0..MaxTau}

InitTD3 ==
    /\ agent \in AgentConfigs
    /\ call = NoAgentCall
    /\ since = NoSince
    /\ params = NewParams(0, 0)
    /\ IdleStorage /\ IdleUpdater /\ IdleRun

\* The counts since construction or reset after a call with outcome t.
Count(c, t) ==
    LET has(e) == \E i \in DOMAIN t.events : t.events[i] = e
        one(e) == IF has(e) THEN 1 ELSE 0
    IN  [calls |-> c.calls + 1,
         critic |-> c.critic + one("critic"),
         actor |-> c.actor + one("actor"),
         target |-> c.target + one("target"),
         actorCalls |-> IF has("actor") THEN c.actorCalls \cup {c.calls + 1}
                        ELSE c.actorCalls]

\* agent.train_on_batch(data, update_target=ut)
AgentTrainCore(ut) ==
    LET t == TrainOnBatch(agent, ut) IN
    /\ agent' = t.agent
    /\ call' = [op |-> "train", ut |-> ut, err |-> t.err, events |-> t.events]
    /\ since' = Count(since, t)
    /\ params' = ApplyEvents(agent, params, t.events)
    /\ UNCHANGED <<storageVars, updVars>>

AgentTrainWith(ut) == AgentTrainCore(ut) /\ UNCHANGED runVars

AgentTrain ==
    \E ut \in {"None", "True", "False"} :
        /\ params.q[1] < MaxCalls
        /\ ut # "None" => params.q[1] < MaxOverride
        /\ AgentTrainWith(ut)

\* agent.reset()
AgentResetCall ==
    /\ agent' = AgentReset(agent)
    /\ call' = [NoAgentCall EXCEPT !.op = "reset"]
    /\ since' = NoSince
    /\ UNCHANGED <<params, storageVars, updVars, runVars>>

NextTD3 == AgentTrain \/ AgentResetCall

SpecTD3 == InitTD3 /\ [][NextTD3]_vars

\* ------------------------------------------------------------- updater
\* The updater drives a TD3 agent whose train_on_batch returns (a hard-mode
\* period of 0 is left to SpecTD3).
InitUpdater ==
    /\ \E per \in 1..MaxPerStep, every \in 1..MaxEvery : upd = NewUpdater(per, every)
    /\ agent \in {a \in AgentConfigs : a.target_update_method = "hard" => a.tau >= 1}
    /\ draws = 0
    /\ lastUpd = NoUpd
    /\ call = NoAgentCall
    /\ since = NoSince
    /\ params = NewParams(0, 0)
    /\ IdleStorage /\ IdleRun

\* The counts after the train_on_batch calls of an update (n of them).
RECURSIVE CountLoop(_, _, _)
CountLoop(c, a, n) ==
    IF n = 0 THEN c
    ELSE LET t == TrainOnBatch(a, "None") IN CountLoop(Count(c, t), t.agent, n - 1)

\* The parameters after the train_on_batch calls of an update (n of them).
RECURSIVE ParamsLoop(_, _, _)
ParamsLoop(p, a, n) ==
    IF n = 0 THEN p
    ELSE LET t == TrainOnBatch(a, "None") IN
         ParamsLoop(ApplyEvents(a, p, t.events), t.agent, n - 1)

\* updater.update(global_step = g)
UpdaterUpdateCall ==
    \E g \in 0..MaxStep :
        LET r == UpdaterUpdate(upd, agent, g, draws)
            n == Len(r.events) \div 2
        IN  /\ since.calls + n <= MaxCalls
            /\ params.q[1] + n <= MaxCalls
            /\ agent' = r.agent
            /\ params' = ParamsLoop(params, agent, n)
            /\ draws' = draws + n
            /\ lastUpd' = [op |-> "update", g |-> g, pu0 |-> agent.policy_updates,
                           err |-> r.err, events |-> r.events]
            /\ since' = CountLoop(since, agent, n)
            /\ UNCHANGED <<storageVars, upd, call, runVars>>

NextUpdater == UpdaterUpdateCall

SpecUpdater == InitUpdater /\ [][NextUpdater]_vars

\* ------------------------------------- specification: TD3 construction
\* The values of tau a caller passes: floats in (0, 1), ints, bools, and
\* values of other types.
TauValues ==
    {<<"float", t>> : t \in 1..(TauDen - 1)} \cup {<<"int", p>> : p \in 0..MaxTau}
    \cup {<<"bool", b>> : b \in 0..1} \cup {<<"str", 0>>, <<"NoneType", 0>>}

InitCtor ==
    /\ agent = NoAgent
    /\ call = NoAgentCall
    /\ since = NoSince
    /\ params = NewParams(0, 0)
    /\ IdleStorage /\ IdleUpdater /\ IdleRun

\* agent = TD3Agent(env, policy_update_freq = k, tau = tau)
CtorConstruct ==
    /\ agent = NoAgent
    /\ \E k \in 1..MaxFreq, tau \in TauValues :
         LET o == TD3Init(k, tau) IN
         /\ agent' = o.agent
         /\ ctor' = [op |-> "init", tau |-> tau, err |-> o.err]
    /\ UNCHANGED <<call, since, params, storageVars, updVars, runner, rcall, lastOn, smooth, td, bracp>>

\* agent.train_on_batch(data, update_target = ut) needs an agent.
CtorTrain == agent # NoAgent /\ AgentTrain

NextCtor == CtorConstruct \/ CtorTrain

SpecCtor == InitCtor /\ [][NextCtor]_vars

\* ------------------------------------ specification: target networks
\* An agent of either mode at some point of its training: the online and the
\* target parameters have any values.
InitTarget ==
    /\ agent \in {NewAgent(1, "soft", t) : t \in 1..(TauDen - 1)} \cup {NewAgent(1, "hard", 1)}
    /\ \E a, b, c, d \in 0..MaxParam :
         params = [NewParams(a, b) EXCEPT !.tq = Frac(c, 1), !.tpi = Frac(d, 1)]
    /\ call = NoAgentCall
    /\ since = NoSince
    /\ IdleStorage /\ IdleUpdater /\ IdleRun

\* agent.update_target()
AgentUpdateTargetCall ==
    /\ since.target < MaxSync
    /\ params' = UpdateTarget(agent, params)
    /\ call' = [op |-> "update_target", ut |-> "None", err |-> "none", events |-> <<"target">>]
    /\ since' = [since EXCEPT !.target = @ + 1]
    /\ UNCHANGED <<agent, storageVars, updVars, runVars>>

\* agent.train_on_batch(data, update_target = False): the online parameters
\* move, the targets stay.
TargetTrain == since.calls < MaxTargetTrain /\ AgentTrainWith("False")

NextTarget == AgentUpdateTargetCall \/ TargetTrain

SpecTarget == InitTarget /\ [][NextTarget]_vars

\* -------------------------------- specification: target policy smoothing
\* An agent with noise_clip >= 0, target_noise >= 0 and an action bound
\* act_lim > 0, and the inputs of one computation: the output `action` of the
\* target policy and the draw z of randn_like.
InitSmooth ==
    /\ \E nc \in 0..MaxNoiseClip, tn \in 0..MaxTargetNoise, al \in 1..MaxActLim,
          action \in (0 - MaxAct)..MaxAct, z \in (0 - MaxDraw)..MaxDraw :
         smooth = [NoSmooth EXCEPT !.noise_clip = nc, !.target_noise = tn, !.act_lim = al,
                                   !.action = action, !.noise = z]
    /\ IdleStorage /\ IdleAgent /\ IdleUpdater /\ IdleRunner /\ IdleOn /\ IdleCtor
    /\ IdleTd

\* agent._compute_next_obs_q(next_obs)
ComputeNextObsQ ==
    /\ smooth.op = "none"
    /\ LET o == ComputeNextAction(smooth.action, smooth.noise, smooth) IN
       smooth' = [smooth EXCEPT !.op = "compute", !.epsilon = o.epsilon,
                                !.next_action = o.next_action]
    /\ UNCHANGED <<storageVars, agentVars, updVars, runner, rcall, lastOn, ctor, td, bracp>>

NextSmooth == ComputeNextObsQ

SpecSmooth == InitSmooth /\ [][NextSmooth]_vars

\* ------------------------------------- specification: soft-mode cadence
\* Agents in soft mode, trained without an update_target argument and reset.
InitSoft ==
    /\ agent \in {a \in AgentConfigs : a.target_update_method = "soft"}
    /\ call = NoAgentCall
    /\ since = NoSince
    /\ params = NewParams(0, 0)
    /\ IdleStorage /\ IdleUpdater /\ IdleRun

\* agent.train_on_batch(data)
SoftTrain == params.q[1] < MaxCalls /\ AgentTrainWith("None")

NextSoft == SoftTrain \/ AgentResetCall

SpecSoft == InitSoft /\ [][NextSoft]_vars

\* ------------------------------------ specification: target values
\* An agent in hard mode constructed with gamma, n_steps and reward_scale;
\* training, priority computation, target synchronisation and
\* reset_optimizer in any order.
Gammas == {<<1, 2>>, <<9, 10>>, <<99, 100>>}

Transitions == [rew : 0..MaxRew, done : 0..1]

InitValue ==
    /\ \E g \in Gammas, n \in 1..MaxNSteps, scale \in 1..MaxRewardScale :
         /\ agent = NewAgentGamma(2, "hard", 2, g, n, scale)
         /\ td = [NoTd EXCEPT !.gamma = g, !.n_steps = n]
    /\ \E q \in 0..MaxParam : params = NewParams(q, 0)
    /\ call = NoAgentCall
    /\ since = NoSince
    /\ IdleStorage /\ IdleUpdater /\ IdleRunner /\ IdleOn /\ IdleCtor /\ IdleSmooth
    /\ bracp = NewBracp(FALSE, FALSE, {})

\* The target-value computation of one call on the transition d.
TdOf(op, d) ==
    [td EXCEPT !.op = op, !.rew = d.rew, !.done = d.done,
               !.next_q = NextObsQ(params), !.q_value = QNetwork(params),
               !.q_target = QTarget(agent, params, d),
               !.abs_td_error = AbsTdError(agent, params, d)]

\* agent.train_on_batch(data) on a batch of one transition
ValueTrain ==
    /\ since.calls < MaxValueTrain
    /\ \E d \in Transitions :
         /\ AgentTrainCore("None")
         /\ td' = TdOf("train", d)
    /\ UNCHANGED <<runner, rcall, lastOn, ctor, smooth, bracp>>

\* agent.compute_priority(data) on a batch of one transition
ValuePriority ==
    \E d \in Transitions :
        LET o == ComputePriority(agent, params, d) IN
        /\ agent' = o.agent
        /\ params' = o.params
        /\ call' = [op |-> "compute_priority", ut |-> "None", err |-> "none",
                    events |-> << >>]
        /\ td' = [TdOf("compute_priority", d) EXCEPT !.abs_td_error = o.abs_td_error]
        /\ UNCHANGED <<since, storageVars, updVars, runner, rcall, lastOn, ctor, smooth, bracp>>

\* agent.reset_optimizer(), once an optimizer has stepped
ValueResetOptimizer ==
    /\ params.qopt + params.piopt > 0
    /\ params' = ResetOptimizer(params)
    /\ call' = [op |-> "reset_optimizer", ut |-> "None", err |-> "none",
                events |-> << >>]
    /\ UNCHANGED <<agent, since, storageVars, updVars, runVars>>

\* agent.update_target(), called by the caller at most once
ValueUpdateTarget == since.target = 0 /\ AgentUpdateTargetCall

NextValue ==
    ValueTrain \/ ValuePriority \/ ValueUpdateTarget \/ ValueResetOptimizer

SpecValue == InitValue /\ [][NextValue]_vars

\* ------------------------------------------ specification: BRAC+ runner
\* A BRACPRunner with any force flags and any loadable checkpoints;
\* on_train_begin and setup_extra in any order.
InitBracp ==
    /\ \E fb \in BOOLEAN, fc \in BOOLEAN, files \in SUBSET Checkpoints :
         bracp = NewBracp(fb, fc, files)
    /\ td = NoTd
    /\ IdleStorage /\ IdleAgent /\ IdleUpdater
    /\ IdleRunner /\ IdleOn /\ IdleCtor /\ IdleSmooth

\* runner.on_train_begin()
BracpOnTrainBeginCall ==
    /\ bracp.runs < MaxBracpRuns
    /\ bracp' = BracpOnTrainBegin(bracp)
    /\ UNCHANGED <<storageVars, agentVars, updVars, runner, rcall, lastOn, ctor,
                   smooth, td>>

\* runner.setup_extra(force_pretrain_behavior = fb, force_pretrain_cloning = fc)
BracpSetupExtraCall ==
    /\ \E fb \in BOOLEAN, fc \in BOOLEAN : bracp' = BracpSetupExtra(bracp, fb, fc)
    /\ UNCHANGED <<storageVars, agentVars, updVars, runner, rcall, lastOn, ctor,
                   smooth, td>>

NextBracp == BracpOnTrainBeginCall \/ BracpSetupExtraCall

SpecBracp == InitBracp /\ [][NextBracp]_vars

\* ------------------------------- specification: updater and agent reset
\* The updater's update calls interleaved with agent.reset(), on agents in
\* soft mode.
InitCounter ==
    /\ \E per \in 1..MaxPerStep, every \in 1..MaxEvery : upd = NewUpdater(per, every)
    /\ \E k \in 1..MaxFreq : agent = NewAgent(k, "soft", 1)
    /\ draws = 0
    /\ lastUpd = NoUpd
    /\ call = NoAgentCall
    /\ since = NoSince
    /\ params = NewParams(0, 0)
    /\ IdleStorage /\ IdleRun

NextCounter == UpdaterUpdateCall \/ AgentResetCall

SpecCounter == InitCounter /\ [][NextCounter]_vars

\* --------------------------------------- specification: on-policy updater
InitOnPolicy ==
    /\ \E cap \in 1..MaxOnCap : st = PyReset(NewStorage("dense", cap))
    /\ lastAdd = NoCall
    /\ log = << >>
    /\ serial = 0
    /\ base = 0
    /\ lastSample = NoSample
    /\ IdleAgent /\ IdleUpdater /\ IdleRun

\* updater.update(global_step) of an OnPolicyUpdater over the storage.
OnPolicyUpdateCall ==
    /\ lastOn.n < MaxOnCalls
    /\ LET o == OnPolicyUpdate(st) IN
       /\ st' = o.st
       /\ lastOn' = [op |-> "update", n |-> lastOn.n + 1, events |-> o.events]
    /\ UNCHANGED <<lastAdd, log, serial, base, lastSample, agentVars, updVars,
                   runner, rcall, ctor, smooth, td, bracp>>

\* The collection phase: storage.add of b transitions.
OnPolicyAdd ==
    \E b \in 1..MaxOnCap :
        AddData(<<(<<"obs", Items(serial, b), "ndarray">>),
                  (<<"rew", Items(serial, b), "ndarray">>)>>, b, b, b)

NextOnPolicy == OnPolicyAdd \/ StorageReset \/ OnPolicyUpdateCall

SpecOnPolicy == InitOnPolicy /\ [][NextOnPolicy]_vars

\* ------------------------------------------------- specification: runner
\* A runner of each kind after its constructor, setup_replay_buffer and
\* setup_sampler, with a TD3 agent.
InitRunner ==
    /\ \/ \E k \in {"off", "on"}, start \in 0..MaxStart, num \in 1..MaxNum :
            runner = NewRunner(k, 1, 1, IF k = "off" THEN start ELSE 0, num)
       \/ \E e \in 1..MaxEpochs, spe \in 1..MaxStepsPerEpoch :
            runner = NewRunner("base", e, spe, 0, 1)
    /\ rcall = NoRunnerCall
    /\ st = PyReset(NewStorage("dense", MaxCap))
    /\ lastAdd = NoCall /\ log = << >> /\ serial = 1 /\ base = 1
    /\ lastSample = NoSample
    /\ agent = NewAgent(2, "hard", 2)
    /\ call = NoAgentCall /\ since = NoSince /\ params = NewParams(0, 0)
    /\ IdleUpdater /\ IdleOn /\ IdleCtor /\ IdleSmooth /\ IdleTd

\* runner.setup_updater(...)
RunnerSetupUpdater ==
    /\ runner.pc = "idle" /\ runner.kind \in {"off", "on"}
    /\ \E after \in 0..MaxAfter :
         LET o == SetupUpdater(runner, IF runner.kind = "off" THEN after ELSE Unset) IN
         /\ runner' = o.runner
         /\ rcall' = [op |-> "setup_updater", err |-> o.err, events |-> << >>, g |-> runner.global_step,
                      source |-> "none", total0 |-> runner.total_env_steps, n |-> 0]
    /\ UNCHANGED <<storageVars, agentVars, updVars, lastOn, ctor, smooth, td, bracp>>

\* The effect of a run_one_step outcome o on the storage and on the agent.
StepEffect(o) ==
    LET t == TrainOnBatch(agent, "None") IN
    /\ serial + o.n <= MaxItems
    /\ since.calls + o.trains <= MaxCalls
    /\ st' = o.st
    /\ serial' = serial + o.n
    /\ IF o.trains = 1
       THEN /\ agent' = t.agent
            /\ call' = [op |-> "train", ut |-> "None", err |-> t.err, events |-> t.events]
            /\ since' = Count(since, t)
            /\ params' = ApplyEvents(agent, params, t.events)
       ELSE UNCHANGED agentVars
    /\ UNCHANGED <<lastAdd, log, base, lastSample, updVars, lastOn, ctor, smooth, td, bracp>>

\* runner.run_one_step(t), called on a runner that is not running.
RunnerRunOneStepCall ==
    /\ runner.pc = "idle"
    /\ \E o \in RunOneStep(runner, st, serial) :
         /\ runner' = o.runner
         /\ rcall' = [op |-> "run_one_step", err |-> o.err, events |-> o.events,
                      g |-> runner.global_step,
                      source |-> o.source, total0 |-> runner.total_env_steps,
                      n |-> o.n]
         /\ StepEffect(o)

\* runner.run(), up to the end of on_train_begin.
RunnerRunBegin ==
    /\ runner.pc = "idle"
    /\ LET err == OnTrainBegin(runner) IN
       /\ runner' = [runner EXCEPT !.pc = IF err = "none" THEN "running" ELSE "failed"]
       /\ rcall' = [op |-> "on_train_begin", err |-> err, events |-> << >>, g |-> runner.global_step,
                      source |-> "none", total0 |-> runner.total_env_steps, n |-> 0]
    /\ UNCHANGED <<storageVars, agentVars, updVars, lastOn, ctor, smooth, td, bracp>>

\* One iteration of the loops of run(): run_one_step(t), then the increment.
RunnerLoopStep ==
    /\ runner.pc = "running"
    /\ runner.t < runner.epochs * runner.steps_per_epoch
    /\ \E o \in RunOneStep(runner, st, serial) :
         /\ runner' = IF o.err = "none"
                      THEN [o.runner EXCEPT !.global_step = NextGlobalStep(@), !.t = @ + 1]
                      ELSE [o.runner EXCEPT !.pc = "failed"]
         /\ rcall' = [op |-> "loop_step", err |-> o.err, events |-> o.events,
                      g |-> runner.global_step,
                      source |-> o.source, total0 |-> runner.total_env_steps,
                      n |-> o.n]
         /\ StepEffect(o)

\* run() returns after the last epoch.
RunnerRunEnd ==
    /\ runner.pc = "running"
    /\ runner.t = runner.epochs * runner.steps_per_epoch
    /\ runner' = [runner EXCEPT !.pc = "returned"]
    /\ rcall' = [op |-> "run", err |-> "none", events |-> << >>, g |-> runner.global_step,
                      source |-> "none", total0 |-> runner.total_env_steps, n |-> 0]
    /\ UNCHANGED <<storageVars, agentVars, updVars, lastOn, ctor, smooth, td, bracp>>

NextRunner ==
    \/ RunnerSetupUpdater
    \/ RunnerRunOneStepCall
    \/ RunnerRunBegin
    \/ RunnerLoopStep
    \/ RunnerRunEnd

SpecRunner == InitRunner /\ [][NextRunner]_vars


\* ---------------------------------------------------------------- claims
Min(a, b) == IF a < b THEN a ELSE b

\* The batch size of the last add call (the length of its first field).
LastB == log[Len(log)][1]

\* The last add call gave every field the same batch size.
LastConsistent == log[Len(log)][1] = log[Len(log)][2]

\* C1: from a reset storage of capacity C, after add calls whose batch sizes
\* sum to S, size = min(S, C) and len(storage) returns that size.
C1_SizeIsMinOfSum ==
    st.ptr # Unset =>
        /\ st.size = Min(Total(log), st.capacity)
        /\ PyLen(st) = Min(Total(log), st.capacity)

\* C1 witness: several successful adds whose sizes sum past the capacity.
C1_Witness ==
    /\ st.ptr # Unset /\ Clean(log) /\ Len(log) >= 2
    /\ \A i \in DOMAIN log : log[i][1] <= st.capacity
    /\ Total(log) > st.capacity
    /\ st.size = st.capacity

\* C2: in every state reachable from reset by adds, 0 <= ptr < C and
\* 0 <= size <= C; the capacity never changes; a successful add(b) moves ptr
\* from p to (p + b) mod C.
C2_PtrSizeInvariant ==
    /\ [](st.ptr # Unset =>
             /\ 0 <= st.ptr /\ st.ptr < st.capacity
             /\ 0 <= st.size /\ st.size <= st.capacity)
    /\ [][/\ st'.capacity = st.capacity
          /\ (lastAdd'.op = "add" /\ lastAdd'.err = "none")
                => st'.ptr = (st.ptr + log'[Len(log')][1]) % st.capacity]_vars

\* C2 witness: a successful add that wrapped around the end of the array.
C2_Witness ==
    /\ lastAdd.op = "add" /\ lastAdd.err = "none"
    /\ LastB <= st.capacity
    /\ lastAdd.ptr0 + LastB > st.capacity
    /\ st.ptr = lastAdd.ptr0 + LastB - st.capacity

\* The adds since reset were all successful adds of one item.
AllSingle == Clean(log) /\ \A i \in DOMAIN log : log[i][1] = 1 /\ log[i][2] = 1

\* C3: from a reset storage, adding C + k items one at a time (0 <= k < C)
\* leaves exactly the last C items: the oldest survivor, item k, at index
\* k mod C, the others following in insertion order, wrapping around.
C3_RingOverwrite ==
    (st.ptr # Unset /\ AllSingle /\ Len(log) >= st.capacity /\ Len(log) < 2 * st.capacity) =>
        LET k == Len(log) - st.capacity IN
        /\ st.size = st.capacity
        /\ \A f \in Fields : \A j \in 0..(st.capacity - 1) :
               st.cols[f][(k + j) % st.capacity] = base + k + j

\* C3 witness: capacity 3, five single adds (k = 2).
C3_Witness ==
    /\ st.ptr # Unset /\ AllSingle /\ st.capacity = 3 /\ Len(log) = 5
    /\ st.cols["obs"][2] = base + 2

\* C4: capacity 4, reset, add [0,1,2] then [3,4,5]: the contents are
\* [4,5,2,3] at positions [0,1,2,3], size = 4 and ptr = 2.
C4_EndToEnd ==
    (/\ st.ptr # Unset /\ st.capacity = 4 /\ Len(log) = 2
     /\ log[1][1] = 3 /\ log[1][2] = 3 /\ log[2][1] = 3 /\ log[2][2] = 3) =>
        /\ Clean(log)
        /\ \A f \in Fields :
               st.cols[f] = [j \in 0..3 |-> base + <<4, 5, 2, 3>>[j + 1]]
        /\ st.size = 4
        /\ st.ptr = 2

\* C4 witness: the scenario itself, with the literal items 0..5.
C4_Witness ==
    /\ st.capacity = 4 /\ base = 0 /\ Len(log) = 2 /\ Clean(log)
    /\ log[1][1] = 3 /\ log[2][1] = 3
    /\ st.cols["obs"] = [j \in 0..3 |-> <<4, 5, 2, 3>>[j + 1]]
    /\ st.cols["rew"] = [j \in 0..3 |-> <<4, 5, 2, 3>>[j + 1]]

\* C5: an add whose fields have unequal batch sizes is rejected and writes
\* nothing: contents, ptr and size are as before the call.
C5_RejectedAddWritesNothing ==
    [][(lastAdd'.op = "add" /\ lastAdd'.err = "AssertionError") => st' = st]_vars

\* C6: for every ptr in [0, C) and every b >= 1, add returns exactly b
\* indices, the i-th being (ptr + i) mod C.
C6_AddReturnsWrappedIndices ==
    (lastAdd.op = "add" /\ lastAdd.ptr0 # Unset /\ LastConsistent) =>
        /\ lastAdd.err = "none"
        /\ Len(lastAdd.index) = LastB
        /\ \A i \in 1..LastB :
               lastAdd.index[i] = (lastAdd.ptr0 + i - 1) % st.capacity

\* C7: once size >= 1, sample(b) returns for every field b entries, the i-th
\* the value stored at the i-th drawn index; every drawn index is in
\* [0, size) and is a slot that was written (fresh items are never 0, the
\* value of a slot never written).
C7_SampleShape ==
    (lastSample.op = "sample" /\ st.size # Unset /\ st.size >= 1) =>
        /\ lastSample.err = "none"
        /\ Len(lastSample.idx) = lastSample.b
        /\ \A i \in 1..lastSample.b :
               /\ lastSample.idx[i] >= 0 /\ lastSample.idx[i] < st.size
        /\ \A k \in Fields :
               /\ Len(lastSample.batch[k]) = lastSample.b
               /\ \A i \in 1..lastSample.b :
                      /\ lastSample.batch[k][i] = st.cols[k][lastSample.idx[i]]
                      /\ lastSample.batch[k][i] # 0

\* C7 witness: a batch with a duplicate, drawn from the object layout after
\* the buffer wrapped.
C7_Witness ==
    /\ lastSample.op = "sample" /\ lastSample.err = "none" /\ lastSample.b = 2
    /\ st.layout = "object" /\ Total(log) > st.capacity
    /\ lastSample.idx[1] = lastSample.idx[2]
    /\ lastSample.batch["obs"][1] = st.cols["obs"][lastSample.idx[1]]

\* C8: with policy_update_freq = k >= 1, after n train_on_batch calls since
\* construction or reset there were exactly n critic updates and n div k
\* actor updates, on the calls k, 2k, 3k, ...; k = 2 and n = 10 give 5.
C8_DelayedActorUpdate ==
    LET k == agent.policy_update_freq
        n == since.calls
    IN  /\ agent.policy_updates = n
        /\ since.critic = n
        /\ since.actor = n \div k
        /\ since.actorCalls = {c \in 1..n : c % k = 0}
        /\ (k = 2 /\ n = 10) => since.actor = 5

\* C8 witness: k = 2, ten calls, five actor updates.
C8_Witness ==
    /\ agent.policy_update_freq = 2 /\ since.calls = 10 /\ since.actor = 5
    /\ since.critic = 10

\* C9: each train_on_batch call performs exactly one critic update, first;
\* an actor update comes after it and before any target synchronization; a
\* target synchronization is the last parameter mutation of the call.
C9_CallOrder ==
    call.op = "train" =>
        LET e == call.events IN
        /\ Len(e) >= 1 /\ e[1] = "critic"
        /\ Cardinality({i \in DOMAIN e : e[i] = "critic"}) = 1
        /\ \A i \in DOMAIN e : e[i] = "actor" => i > 1
        /\ \A i, j \in DOMAIN e : (e[i] = "actor" /\ e[j] = "target") => i < j
        /\ \A i \in DOMAIN e : e[i] = "target" => i = Len(e)

\* C9 witness: a call that did all three.
C9_Witness == call.op = "train" /\ call.events = <<"critic", "actor", "target">>

\* C10: update(global_step) performs update_per_step * update_every gradient
\* updates when update_every divides global_step and none otherwise; each
\* draws a fresh batch from the replay buffer right before its
\* train_on_batch call.
C10_UpdateCount ==
    lastUpd.op = "update" =>
        LET e == lastUpd.events
            n == IF lastUpd.g % upd.update_every = 0
                 THEN upd.update_per_step * upd.update_every ELSE 0
        IN  /\ lastUpd.err = "none"
            /\ Len(e) = 2 * n
            /\ agent.policy_updates = lastUpd.pu0 + n
            /\ \A j \in 1..n :
                   /\ e[2 * j - 1].ev = "sample"
                   /\ e[2 * j].ev = "train"
                   /\ e[2 * j].batch = e[2 * j - 1].batch
                   /\ \A i \in 1..(j - 1) : e[2 * i - 1].batch # e[2 * j - 1].batch
                   /\ e[2 * j - 1].batch > draws - n

\* C10 witness: update_every = 3, update_per_step = 2, global_step = 3: six
\* updates; and (below) a step the gate skips.
C10_Witness ==
    /\ lastUpd.op = "update" /\ lastUpd.g = 3
    /\ upd.update_every = 3 /\ upd.update_per_step = 2
    /\ Len(lastUpd.events) = 12
    /\ agent.policy_updates = lastUpd.pu0 + 6


\* The runner call that was last made was a run_one_step, direct or in run().
StepCalled == rcall.op \in {"run_one_step", "loop_step"}

UpdateIssued == \E i \in DOMAIN rcall.events : rcall.events[i] = "update"

\* C11: every updater.update call a runner step issues passes the runner's
\* current global_step and so completes the binding of update(global_step),
\* and the off-policy runner constructs its updater with the update_per_step
\* and update_every it was configured with.
C11_RunnerFollowsContract ==
    /\ (rcall.op = "setup_updater" /\ runner.kind = "off") =>
           /\ rcall.err = "none"
           /\ runner.updater = "OffPolicyUpdater"
           /\ {"update_per_step", "update_every"} \subseteq SetupUpdaterKwargs
    /\ (StepCalled /\ UpdateIssued) =>
           /\ rcall.err = "none"
           /\ "global_step" \in StepUpdateKwargs

\* C12: after any sequence of OffPolicyUpdater.update calls since the agent
\* was constructed or reset, policy_updates equals the number of
\* train_on_batch invocations made (each one gradient update of the critic),
\* and the actor was updated exactly on the invocations at which this counter
\* was a multiple of policy_update_freq.
C12_CounterTracksUpdates ==
    /\ agent.policy_updates = since.calls
    /\ since.critic = agent.policy_updates
    /\ since.actorCalls =
           {c \in 1..agent.policy_updates : c % agent.policy_update_freq = 0}
    /\ since.actor = Cardinality(since.actorCalls)
    /\ draws >= agent.policy_updates

\* C12 witness: a reset, then update calls that made 4 invocations, 2 of them
\* with an actor update.
C12_Witness ==
    /\ lastUpd.op = "update" /\ agent.policy_updates = 4 /\ draws > 4
    /\ agent.policy_update_freq = 2 /\ since.actor = 2

\* C13: one OnPolicyUpdater.update performs exactly one train_on_batch call,
\* with the entire mapping replay_buffer.get() returns, and leaves the buffer
\* as it was: contents, ptr and size.
C13_OnPolicyUpdateOnce ==
    /\ [](lastOn.op = "update" =>
              /\ Len(lastOn.events) = 1
              /\ lastOn.events[1].ev = "train"
              /\ DOMAIN lastOn.events[1].kwargs = Fields)
    /\ [][lastOn'.n = lastOn.n + 1 =>
              /\ st' = st
              /\ lastOn'.events = <<[ev |-> "train", kwargs |-> st.cols]>>]_vars

\* C13 witness: an update over a buffer that holds data and has wrapped.
C13_Witness ==
    /\ lastOn.op = "update" /\ lastOn.n = 2
    /\ st.capacity = 2 /\ st.size = 2 /\ st.ptr = 1
    /\ lastOn.events[1].kwargs = st.cols
    /\ st.cols["obs"][0] > 0

\* C16: the constructor selects the target-sync mode from the type of tau
\* alone: a float selects soft, an int (bool included, a subclass of int)
\* selects hard, and any other type raises ValueError, after which no agent
\* exists and no training step has run.
C16_TauTypeSelectsMode ==
    ctor.op = "init" =>
        LET ty == ctor.tau[1] IN
        /\ ty = "float" => (ctor.err = "none" /\ agent.target_update_method = "soft")
        /\ ty \in {"int", "bool"} =>
               (ctor.err = "none" /\ agent.target_update_method = "hard"
                /\ agent.tau = ctor.tau[2])
        /\ ty \notin {"float", "int", "bool"} =>
               /\ ctor.err = "ValueError"
               /\ agent = NoAgent
               /\ call = NoAgentCall /\ since = NoSince /\ params = NewParams(0, 0)

\* C16 witness: a construction with a str tau has failed.
C16_Witness ==
    ctor.op = "init" /\ ctor.tau[1] = "str" /\ ctor.err = "ValueError" /\ agent = NoAgent

\* p divides n, for the period p of a modulo test.
Multiple(n, p) == IF p = 0 THEN n = 0 ELSE n % p = 0

\* C17: in hard mode with an int tau = p that the constructor accepts and no
\* update_target argument, the n-th train_on_batch call since construction
\* or reset completes, copies the online parameters into the targets exactly
\* when n is a multiple of p, leaving the targets equal to the online
\* parameters, and leaves the targets unchanged on every other call.
C17_HardSyncPeriod ==
    [][(/\ since'.calls = since.calls + 1
        /\ call'.ut = "None"
        /\ agent.target_update_method = "hard") =>
           /\ call'.err = "none"
           /\ IF Multiple(since'.calls, agent.tau)
              THEN /\ call'.events[Len(call'.events)] = "target"
                   /\ params'.tq = params'.q /\ params'.tpi = params'.pi
              ELSE /\ \A i \in DOMAIN call'.events : call'.events[i] # "target"
                   /\ params'.tq = params.tq /\ params'.tpi = params.tpi]_vars

\* The step is a direct update_target call.
TargetStep == call'.op = "update_target" /\ since'.target = since.target + 1

\* C18: a hard update makes the target critic and the target policy equal to
\* the online ones, and a second hard update right after it, the online
\* parameters unchanged, leaves the same target parameters as the first.
C18_HardUpdateIdempotent ==
    /\ []((call.op = "update_target" /\ agent.target_update_method = "hard") =>
              /\ params.tq = params.q /\ params.tpi = params.pi
              /\ UpdateTarget(agent, params) = params)
    /\ [][(TargetStep /\ agent.target_update_method = "hard"
           /\ call.op = "update_target") => params' = params]_vars

\* C18 witness: two hard updates in a row, with no training around them.
C18_Witness ==
    /\ call.op = "update_target" /\ agent.target_update_method = "hard"
    /\ since.target = 2 /\ since.calls = 0
    /\ params.tq = <<2, 1>> /\ params.tpi = <<1, 1>>

\* The squared L2 distance between the target and the online parameters.
Dist2(p) ==
    LET dq == FracSub(p.tq, p.q)
        dpi == FracSub(p.tpi, p.pi)
    IN  FracAdd(FracMul(dq, dq), FracMul(dpi, dpi))

\* C19: a soft update with tau = t / TauDen strictly between 0 and 1 leaves
\* the online parameters, never increases the distance between target and
\* online parameters and strictly decreases it while they differ; each
\* application scales the distance by exactly 1 - tau, so the targets
\* converge to the online parameters.
C19_SoftUpdateContracts ==
    [][(TargetStep /\ agent.target_update_method = "soft") =>
           LET d0 == Dist2(params)
               d1 == Dist2(params')
               t == agent.tau
           IN  /\ 0 < t /\ t < TauDen
               /\ params'.q = params.q /\ params'.pi = params.pi
               /\ ~FracLess(d0, d1)
               /\ d0[1] > 0 => FracLess(d1, d0)
               /\ d1 = FracMul(d0, Frac((TauDen - t) * (TauDen - t), TauDen * TauDen))]_vars

\* C19 witness: three soft updates in a row have brought the targets closer
\* and they still differ from the online parameters.
C19_Witness ==
    /\ call.op = "update_target" /\ agent.target_update_method = "soft"
    /\ since.target = 3 /\ since.calls = 0
    /\ params.q = <<2, 1>> /\ params.tq = <<7, 4>> /\ params.tpi = params.pi

\* C20: in the target-value computation, for every target-policy output and
\* every noise draw, the perturbation added to the action lies in
\* [-noise_clip, noise_clip] and next_action in [-act_lim, act_lim]; with
\* noise_clip = 0.5, target_noise = 0.2, action 0.3 and bound 1.0 next_action
\* is within [-1.0, 1.0] (and is the action plus the perturbation).
C20_SmoothedActionBounded ==
    smooth.op = "compute" =>
        /\ 0 - smooth.noise_clip <= smooth.epsilon
        /\ smooth.epsilon <= smooth.noise_clip
        /\ 0 - smooth.act_lim <= smooth.next_action
        /\ smooth.next_action <= smooth.act_lim
        /\ smooth.next_action =
               Clip(smooth.action + smooth.epsilon, 0 - smooth.act_lim, smooth.act_lim)
        /\ (/\ smooth.noise_clip = 5 /\ smooth.target_noise = 2
            /\ smooth.action = 3 /\ smooth.act_lim = 10) =>
               /\ smooth.next_action \in (0 - 10)..10
               /\ smooth.next_action = 3 + smooth.epsilon

\* C20 witness: the scenario with a draw of 4 standard deviations: the noise
\* 0.8 is clipped to 0.5 and next_action is 0.8.
C20_Witness ==
    /\ smooth.op = "compute" /\ smooth.noise_clip = 5 /\ smooth.target_noise = 2
    /\ smooth.action = 3 /\ smooth.act_lim = 10 /\ smooth.noise = 4
    /\ smooth.epsilon = 5 /\ smooth.next_action = 8

Synced == \E i \in DOMAIN call.events : call.events[i] = "target"

\* The last train_on_batch call updated the actor.
ActorUpdated == \E i \in DOMAIN call.events : call.events[i] = "actor"

\* C24: in soft mode without an update_target argument, a train_on_batch
\* call synchronizes the targets exactly when policy_updates, after its
\* increment, is even, whatever policy_update_freq is; after n calls since
\* reset there were n div 2 syncs.
C24_SoftSyncOnEvenCounts ==
    /\ call.op = "train" => (Synced <=> agent.policy_updates % 2 = 0)
    /\ agent.policy_updates = since.calls
    /\ since.target = since.calls \div 2

\* C24 witness: policy_update_freq = 3, five calls after a reset, two syncs,
\* and the actor updated once (on call 3, without a sync).
C24_Witness ==
    /\ agent.policy_update_freq = 3 /\ since.calls = 5 /\ since.target = 2
    /\ since.actorCalls = {3} /\ params.q[1] > 5

\* C25: in soft mode without an update_target argument, for every
\* policy_update_freq k >= 1, a train_on_batch call that updates the actor
\* also synchronizes the targets, after the actor update.
C25_SyncFollowsActorUpdate ==
    (call.op = "train" /\ ActorUpdated) =>
        /\ Synced
        /\ call.events[Len(call.events)] = "target"

\* C28: an explicit update_target overrides the cadence in both modes: True
\* synchronizes the targets in that call and False leaves them unchanged,
\* whatever policy_updates is; the call completes, policy_updates is
\* incremented and the actor update follows policy_update_freq.
C28_ExplicitUpdateTargetOverrides ==
    /\ []((call.op = "train" /\ call.ut # "None") =>
              /\ call.err = "none"
              /\ Synced <=> call.ut = "True"
              /\ ActorUpdated <=> agent.policy_updates % agent.policy_update_freq = 0)
    /\ [][(call'.op = "train" /\ call'.ut # "None" /\ since'.calls = since.calls + 1) =>
              /\ agent'.policy_updates = agent.policy_updates + 1
              /\ call'.ut = "False" =>
                     (params'.tq = params.tq /\ params'.tpi = params.tpi)
              /\ call'.ut = "True" =>
                     LET before == [params' EXCEPT !.tq = params.tq, !.tpi = params.tpi]
                     IN  /\ params' = UpdateTarget(agent, before)
                         /\ (agent.target_update_method = "hard" =>
                                 params'.tq = params'.q /\ params'.tpi = params'.pi)]_vars

\* C28 witness: a hard-mode agent with period 3 was synchronized on its first
\* call by update_target = True, off its cadence, with no actor update.
C28_Witness ==
    /\ call.op = "train" /\ call.ut = "True" /\ Synced /\ ~ActorUpdated
    /\ agent.target_update_method = "hard" /\ agent.tau = 3
    /\ agent.policy_updates = 1 /\ agent.policy_update_freq = 2
    /\ params.tq = <<1, 1>>

\* C23: in train_on_batch the critic update changes only the online critic
\* parameters, the actor update only the online policy parameters (the
\* critic's are the same before and after it), and the targets change only
\* inside update_target, never by an optimizer step.
C23_SubStepsMutateOwnGroup ==
    /\ [](LET c == CriticStep(params)
              a == ActorStep(c)
          IN  /\ c.q # params.q
              /\ c.pi = params.pi /\ c.tq = params.tq /\ c.tpi = params.tpi
              /\ a.pi # c.pi
              /\ a.q = c.q /\ a.tq = c.tq /\ a.tpi = c.tpi)
    /\ [][(call'.op = "train" /\ since'.calls = since.calls + 1) =>
              /\ params'.q = CriticStep(params).q
              /\ params'.qopt = params.qopt + 1
              /\ params'.pi = IF since'.actor = since.actor THEN params.pi
                              ELSE ActorStep(params).pi
              /\ since'.target = since.target =>
                     (params'.tq = params.tq /\ params'.tpi = params.tpi)]_vars

\* C23 witness: a call that updated the critic and the actor and did not
\* synchronize: the targets still hold their initial values.
C23_Witness ==
    /\ call.op = "train" /\ call.events = <<"critic", "actor">>
    /\ params.q = <<1, 1>> /\ params.pi = <<1, 1>>
    /\ params.tq = <<0, 1>> /\ params.tpi = <<0, 1>>


\* C21: the agent's discount is gamma ** n_steps of its construction, before
\* and after every train_on_batch, compute_priority, update_target and
\* reset_optimizer, and the target of every critic update and priority
\* computation is rew / reward_scale + gamma ** n_steps * (1 - done) * next_q.
C21_EffectiveDiscount ==
    /\ agent.gamma = FracPow(td.gamma, td.n_steps)
    /\ td.op \in {"train", "compute_priority"} =>
         td.q_target =
             FracAdd(Frac(td.rew, agent.reward_scale),
                     FracMul(FracPow(td.gamma, td.n_steps),
                             FracMul(Frac(1 - td.done, 1), td.next_q)))

\* C21 witness: gamma = 0.99 and n_steps = 3 give the discount 0.99 ** 3 in a
\* priority computation on a non-terminal transition, after training, a
\* target synchronisation and a reset of the optimizers.
C21_Witness ==
    /\ td.gamma = <<99, 100>> /\ td.n_steps = 3
    /\ agent.gamma = <<970299, 1000000>>
    /\ td.op = "compute_priority" /\ call.op = "compute_priority"
    /\ td.done = 0 /\ td.next_q = <<2, 1>> /\ td.rew = 1 /\ agent.reward_scale = 1
    /\ td.q_target = <<1470299, 500000>>
    /\ since.calls > 0 /\ since.target > 0 /\ params.qopt = 0

\* C26: compute_priority returns |Q(obs, act) - q_target| and leaves the
\* agent (policy_updates included), the online and target parameters and
\* both optimizers' state as they were.
C26_ComputePriorityReadOnly ==
    [][call'.op = "compute_priority" =>
         /\ agent' = agent /\ params' = params
         /\ td'.abs_td_error = FracAbs(FracSub(params.q, td'.q_target))]_vars

\* C26 witness: a priority computation with a non-zero TD error on an agent
\* whose optimizers have stepped and whose counter has advanced.
C26_Witness ==
    /\ call.op = "compute_priority" /\ td.op = "compute_priority"
    /\ params.qopt > 0 /\ params.piopt > 0 /\ agent.policy_updates > 0
    /\ td.abs_td_error # <<0, 1>>


\* The events of the last on_train_begin.
BracpHas(e) == \E i \in DOMAIN bracp.events : bracp.events[i] = e

BracpBefore(e1, e2) ==
    \E i, j \in DOMAIN bracp.events :
        i < j /\ bracp.events[i] = e1 /\ bracp.events[j] = e2

\* C22: on_train_begin pretrains the behavior policy exactly when
\* force_pretrain_behavior is set or its checkpoint does not load, saves the
\* checkpoint after every pretraining and only then; the same for the cloned
\* policy (policy_net and log_beta checkpoints) with force_pretrain_cloning;
\* and on_train_begin runs to its end whatever the loads do.
C22_PretrainOnFlagOrLoadFailure ==
    bracp.op = "on_train_begin" =>
        /\ BracpHas("pretrain_behavior") <=>
              (bracp.force_pretrain_behavior \/ "behavior" \notin bracp.files0)
        /\ BracpHas("save_behavior") <=> BracpHas("pretrain_behavior")
        /\ BracpHas("pretrain_behavior") => BracpBefore("pretrain_behavior", "save_behavior")
        /\ BracpHas("pretrain_cloning") <=>
              (bracp.force_pretrain_cloning \/ {"policy", "log_beta"} \ bracp.files0 # {})
        /\ BracpHas("save_policy") <=> BracpHas("pretrain_cloning")
        /\ BracpHas("save_log_beta") <=> BracpHas("pretrain_cloning")
        /\ BracpHas("pretrain_cloning") =>
              /\ BracpBefore("pretrain_cloning", "save_policy")
              /\ BracpBefore("pretrain_cloning", "save_log_beta")
        /\ bracp.err = "none" /\ BracpHas("hard_update")

\* C22 witness: with both flags unset, the behavior checkpoint loads (no
\* pretraining, no save) while the log_beta checkpoint fails to load after
\* the policy's loaded, so the cloned policy is pretrained and saved.
C22_Witness ==
    /\ bracp.op = "on_train_begin"
    /\ ~bracp.force_pretrain_behavior /\ ~bracp.force_pretrain_cloning
    /\ bracp.files0 = {"behavior", "policy"}
    /\ bracp.events = <<"load_behavior", "load_policy", "load_log_beta_failed",
                        "pretrain_cloning", "save_policy", "save_log_beta",
                        "hard_update">>


\* C27: in a step of the off-policy runner no update is issued while
\* total_env_steps, read after the sampling, is below update_after; a step
\* that starts with total_env_steps < start_steps takes one action from
\* env.action_space.sample(), and every other step takes its num_steps
\* actions from the agent's act_batch_explore.
C27_WarmUpGating ==
    (runner.kind = "off" /\ StepCalled) =>
        /\ runner.total_env_steps < runner.update_after => ~UpdateIssued
        /\ rcall.total0 < runner.start_steps =>
               rcall.source = "random" /\ rcall.n = 1
        /\ rcall.total0 >= runner.start_steps =>
               rcall.source = "explore" /\ rcall.n = runner.num_steps


\* C29: after a successful MemoryEfficientPyDictStorage.add of b <= C items,
\* the i-th returned index is (ptr + i) mod C and holds the i-th element of
\* the object field and of the array field alike, wrap-around included; an
\* add that raises ValueError for a value that is neither an array nor a
\* list leaves ptr and size as they were.
C29_ObjectSlotsAligned ==
    /\ []((lastAdd.op = "add" /\ lastAdd.err = "none"
             /\ log[Len(log)][1] <= st.capacity) =>
            LET b == log[Len(log)][1] IN
            /\ Len(lastAdd.index) = b
            /\ \A i \in 1..b :
                   /\ lastAdd.index[i] = (lastAdd.ptr0 + i - 1) % st.capacity
                   /\ \A f \in Fields :
                          st.cols[f][lastAdd.index[i]] = serial - b + i - 1)
    /\ [][(lastAdd'.op = "add" /\ lastAdd'.err = "ValueError") =>
              st'.ptr = st.ptr /\ st'.size = st.size]_vars

\* C29 witness: capacity 3, a successful add of two items that starts at
\* slot 2 and wraps to slot 0.
C29_Witness ==
    /\ st.layout = "object" /\ st.capacity = 3
    /\ lastAdd.op = "add" /\ lastAdd.err = "none" /\ lastAdd.ptr0 = 2
    /\ lastAdd.index = <<2, 0>>
    /\ st.cols["obs"][0] = serial - 1 /\ st.cols["rew"][0] = serial - 1
    /\ st.cols["obs"][2] = serial - 2
    /\ st.ptr = 1


\* C30: a storage that was constructed and never reset has ptr = 0 and
\* size = 0, len(storage) returns 0, and its first add of b items (b at most
\* the capacity) succeeds and returns the indices 0..b-1.
C30_UsableWithoutReset ==
    /\ (lastAdd.op = "none" /\ log = << >>) =>
           st.ptr = 0 /\ st.size = 0 /\ PyLen(st) = 0
    /\ (lastAdd.op = "add" /\ Len(log) = 1 /\ LastConsistent
          /\ LastB <= st.capacity) =>
           /\ lastAdd.err = "none"
           /\ lastAdd.index = Arange(0, LastB)

=========================================================================
